---- MODULE Spec2Model ----
(***************************************************************************)
(* A model of scripts/generate_widgets.py: the aggregator                  *)
(* (github_api, fetch_user_data) as a sequential state machine over the    *)
(* upstream's answers, and the four widget renderers as operators applied  *)
(* to a ProfileStats value.                                                *)
(*                                                                         *)
(* Python dicts are modelled as sequences of <<key, value>> pairs with     *)
(* distinct keys, so that insertion order is part of the value, as it is   *)
(* in Python.  Ratios are kept exact as pairs of integers.                 *)
(***************************************************************************)
EXTENDS Integers, Sequences, FiniteSets, TLC

VARIABLES
    \* ---- fetch_user_data ----
    pc,               \* position in fetch_user_data
    queries,          \* upstream queries issued so far, in order
    user,             \* line 120
    repos,            \* line 123
    ri,               \* index of the next repo of the for loop, line 129
    lang_totals,      \* line 126
    repo_data,        \* line 127
    events,           \* line 155
    ei,               \* index of the next event of the for loop, line 162
    daily_activity,   \* line 158
    hourly_activity,  \* line 159
    event_types,      \* line 160
    result            \* the value returned at lines 174-183

fetchVars == <<pc, queries, user, repos, ri, lang_totals, repo_data,
               events, ei, daily_activity, hourly_activity, event_types,
               result>>

VARIABLES
    GITHUB_TOKEN,     \* line 34: the credential of the environment, "" if absent
    hashseed          \* the seed keying hash() of a str in this process

envVars == <<GITHUB_TOKEN, hashseed>>

\* ---------------------------------------------------------------------
\* Bounds of the model
\* ---------------------------------------------------------------------
MaxRepos == 2
MaxEvents == 2

\* ---------------------------------------------------------------------
\* Python dicts as insertion-ordered sequences of <<key, value>>
\* ---------------------------------------------------------------------
DictKeys(d) == {d[i][1] : i \in DOMAIN d}

DictGet(d, k, default) ==
    IF k \in DictKeys(d)
    THEN d[CHOOSE i \in DOMAIN d : d[i][1] = k][2]
    ELSE default

\* defaultdict(int): d[k] += v
DictInc_replace(d, k, v) ==
    IF k \in DictKeys(d)
    THEN [i \in DOMAIN d |-> IF d[i][1] = k THEN <<k, v>> ELSE d[i]]
    ELSE Append(d, <<k, v>>)

DictInc(d, k, v) ==
    IF k \in DictKeys(d)
    THEN [i \in DOMAIN d |-> IF d[i][1] = k THEN <<k, d[i][2] + v>> ELSE d[i]]
    ELSE Append(d, <<k, v>>)

RECURSIVE SumValues(_)
\* sum(d.values())
SumValues(d) ==
    IF d = << >> THEN 0 ELSE d[1][2] + SumValues(Tail(d))

\* ---------------------------------------------------------------------
\* The upstream: what requests.get can produce for each query
\* ---------------------------------------------------------------------
\* A response is a status with a JSON body, or the client raising
\* (timeout, connection error) instead of returning.
Ok(body)    == [kind |-> "status", status_code |-> 200, json |-> body]
\* a non-success answer carries an error document, not the data asked for
Fail(code)  == [kind |-> "status", status_code |-> code,
                json |-> << <<"message", "Forbidden">> >>]
Raise       == [kind |-> "raise",  status_code |-> 0,   json |-> << >>]

FailStatus == {403}

Langs == {"Python", "Go"}

\* every language breakdown {language: bytes} the upstream may return for a
\* repository, in either key order
LangMaps ==
    {<< >>}
    \cup {<< <<"Python", b>> >> : b \in {50, 100}}
    \cup {<< <<"Go", 20>> >>}
    \cup {<< <<"Python", 50>>, <<"Go", 20>> >>, << <<"Go", 20>>, <<"Python", 50>> >>}

\* repositories the upstream may list: fork or not, with stars and size
RepoChoices ==
    { [name |-> "alpha", fork |-> FALSE, stargazers_count |-> 3, size |-> 5, language |-> "Python"],
      [name |-> "beta",  fork |-> FALSE, stargazers_count |-> 2, size |-> 0, language |-> ""],
      [name |-> "gamma", fork |-> TRUE,  stargazers_count |-> 7, size |-> 9, language |-> "Go"],
      [name |-> "delta", fork |-> TRUE,  stargazers_count |-> 0, size |-> 0, language |-> ""] }

\* repository lists: no two entries with the same name
RepoLists ==
    UNION { {s \in [1..n -> RepoChoices] :
                \A i, j \in 1..n : i # j => s[i].name # s[j].name}
            : n \in 0..MaxRepos }

\* A timestamp string is modelled by its fields <<month, day, hour, tz>>
\* (year 2024); << >> is the empty string; fields out of range make a
\* text that is no ISO timestamp.  tz: 0 = "Z", 1 = "+05:00".
Timestamps ==
    { << >>,                 \* ""
      <<1, 15, 24, 0>>,      \* "2024-01-15T24:30:00Z"
      <<1, 15, 10, 0>>,      \* "2024-01-15T10:30:00Z"
      <<1, 16, 23, 1>> }     \* "2024-01-16T23:30:00+05:00"

EventChoices == {[created_at |-> t, type |-> "PushEvent"] : t \in Timestamps}

EventLists == UNION { [1..n -> EventChoices] : n \in 0..MaxEvents }

ProfileBody == << <<"login", "IAmMasterCraft">> >>

ProfileResponses == {Ok(ProfileBody), Raise} \cup {Fail(c) : c \in FailStatus}
RepoResponses    == {Ok(l) : l \in RepoLists} \cup {Raise} \cup {Fail(c) : c \in FailStatus}
LangResponses    == {Ok(m) : m \in LangMaps} \cup {Raise} \cup {Fail(c) : c \in FailStatus}
EventResponses   == {Ok(l) : l \in EventLists} \cup {Raise} \cup {Fail(c) : c \in FailStatus}

\* ---------------------------------------------------------------------
\* github_api (lines 99-112)
\* ---------------------------------------------------------------------
\* None is [none |-> TRUE]; a JSON body is [none |-> FALSE, val |-> body].
github_api_keeps_body(resp) == [none |-> FALSE, val |-> resp.json]

github_api(resp) ==
    IF resp.status_code = 200
    THEN [none |-> FALSE, val |-> resp.json]
    ELSE [none |-> TRUE,  val |-> << >>]

\* `x or default`: None and an empty collection are both falsy
OrElse(x, default) ==
    IF x.none \/ x.val = << >> THEN default ELSE x.val

\* what the log of queries records of a response
Outcome(resp) ==
    IF resp.kind = "raise" THEN "raise"
    ELSE IF resp.status_code = 200 THEN "ok" ELSE "status"

\* lines 101-103: the headers of a request
Headers(tok) ==
    IF tok # "" THEN {"Accept", "Authorization"} ELSE {"Accept"}

Query(endpoint, arg, resp) ==
    [endpoint |-> endpoint, arg |-> arg, outcome |-> Outcome(resp),
     headers |-> Headers(GITHUB_TOKEN)]

\* ---------------------------------------------------------------------
\* fetch_user_data, the repository loop (lines 129-152)
\* ---------------------------------------------------------------------
IsSkipped_never(repo) == FALSE

\* if repo.get("fork"): continue
IsSkipped(repo) == repo.fork

RECURSIVE MergeLangs_replace(_, _)
MergeLangs_replace(totals, langs) ==
    IF langs = << >> THEN totals
    ELSE MergeLangs_replace(DictInc_replace(totals, langs[1][1], langs[1][2]),
                            Tail(langs))

RECURSIVE MergeLangs(_, _)
\* for l, bytes_count in langs.items(): lang_totals[l] += bytes_count
MergeLangs(totals, langs) ==
    IF langs = << >> THEN totals
    ELSE MergeLangs(DictInc(totals, langs[1][1], langs[1][2]), Tail(langs))

\* the entry appended to repo_data
RepoEntry(repo, langs) ==
    [name      |-> repo.name,
     language  |-> IF repo.language = "" THEN "Other" ELSE repo.language,
     stars     |-> repo.stargazers_count,
     size      |-> repo.size,
     languages |-> langs]

\* ---------------------------------------------------------------------
\* fetch_user_data, the event loop (lines 162-172)
\* ---------------------------------------------------------------------
DaysInMonth(m) ==
    IF m = 2 THEN 29 ELSE IF m \in {4, 6, 9, 11} THEN 30 ELSE 31

\* datetime.fromisoformat(created.replace("Z", "+00:00")) returns a value
FromIsoFormatOk(ts) ==
    /\ Len(ts) = 4
    /\ ts[1] \in 1..12
    /\ ts[2] \in 1..DaysInMonth(ts[1])
    /\ ts[3] \in 0..23
    /\ ts[4] \in {0, 1}

\* dt.strftime("%Y-%m-%d"), as the number yyyymmdd
DayKey(ts) == 20240000 + ts[1] * 100 + ts[2]

\* dt.hour: the hour as written, whatever the offset
HourOf(ts) == ts[3]

HandleEvent_raises(acc, event) ==
    LET created == event.created_at IN
    IF created # << >> /\ FromIsoFormatOk(created)
    THEN [daily  |-> DictInc(acc.daily, DayKey(created), 1),
          hourly |-> DictInc(acc.hourly, HourOf(created), 1),
          types  |-> DictInc(acc.types, event.type, 1),
          raised |-> FALSE]
    ELSE [acc EXCEPT !.raised = (created # << >>),
                     !.types = DictInc(acc.types, event.type, 1)]

\* one iteration of `for event in events`
HandleEvent(acc, event) ==
    LET created == event.created_at IN
    IF created # << >> /\ FromIsoFormatOk(created)
    THEN [daily  |-> DictInc(acc.daily, DayKey(created), 1),
          hourly |-> DictInc(acc.hourly, HourOf(created), 1),
          types  |-> DictInc(acc.types, event.type, 1),
          raised |-> FALSE]
    ELSE \* empty, or the parse raised and `except: pass` swallowed it
         [acc EXCEPT !.types = DictInc(acc.types, event.type, 1)]

\* ---------------------------------------------------------------------
\* fetch_user_data, the returned record (lines 174-183)
\* ---------------------------------------------------------------------
RECURSIVE SumStars(_)
\* sum(r["stars"] for r in repo_data)
SumStars(rd) ==
    IF rd = << >> THEN 0 ELSE rd[1].stars + SumStars(Tail(rd))

NoResult == [returned |-> FALSE]

ProfileStats ==
    [returned        |-> TRUE,
     user            |-> user,
     repos           |-> repo_data,
     languages       |-> lang_totals,
     daily_activity  |-> daily_activity,
     hourly_activity |-> hourly_activity,
     event_types     |-> event_types,
     total_repos     |-> Len(repo_data),
     total_stars     |-> SumStars(repo_data)]

\* ---------------------------------------------------------------------
\* fetch_user_data as a state machine
\* ---------------------------------------------------------------------
FetchInit ==
    /\ pc = "profile"
    /\ queries = << >>
    /\ user = << >>
    /\ repos = << >>
    /\ ri = 1
    /\ lang_totals = << >>
    /\ repo_data = << >>
    /\ events = << >>
    /\ ei = 1
    /\ daily_activity = << >>
    /\ hourly_activity = << >>
    /\ event_types = << >>
    /\ result = NoResult

\* line 120: user = github_api(f"/users/{USERNAME}") or {}
FetchProfile ==
    /\ pc = "profile"
    /\ \E resp \in ProfileResponses :
         /\ queries' = Append(queries, Query("profile", "", resp))
         /\ IF resp.kind = "raise"
            THEN /\ pc' = "raised"
                 /\ user' = user
            ELSE /\ pc' = "repos"
                 /\ user' = OrElse(github_api(resp), << >>)
    /\ UNCHANGED <<repos, ri, lang_totals, repo_data, events, ei,
                   daily_activity, hourly_activity, event_types, result>>

\* line 123: repos = github_api(f"/users/{USERNAME}/repos", ...) or []
FetchRepos ==
    /\ pc = "repos"
    /\ \E resp \in RepoResponses :
         /\ queries' = Append(queries, Query("repos", "", resp))
         /\ IF resp.kind = "raise"
            THEN /\ pc' = "raised"
                 /\ repos' = repos
            ELSE /\ repos' = OrElse(github_api(resp), << >>)
                 /\ pc' = IF repos' = << >> THEN "events" ELSE "repo_loop"
    /\ ri' = 1
    /\ UNCHANGED <<user, lang_totals, repo_data, events, ei,
                   daily_activity, hourly_activity, event_types, result>>

\* lines 129-152: one iteration of `for repo in repos`
RepoLoop ==
    /\ pc = "repo_loop"
    /\ ri <= Len(repos)
    /\ LET repo == repos[ri]
           next == IF ri = Len(repos) THEN "events" ELSE "repo_loop"
       IN IF IsSkipped(repo)
          THEN /\ pc' = next
               /\ ri' = ri + 1
               /\ UNCHANGED <<queries, lang_totals, repo_data>>
          ELSE \E resp \in LangResponses :
                 /\ queries' = Append(queries, Query("languages", repo.name, resp))
                 /\ IF resp.kind = "raise"
                    THEN /\ pc' = "raised"
                         /\ UNCHANGED <<ri, lang_totals, repo_data>>
                    ELSE LET langs == OrElse(github_api(resp), << >>) IN
                         /\ lang_totals' = MergeLangs(lang_totals, langs)
                         /\ repo_data' = Append(repo_data, RepoEntry(repo, langs))
                         /\ ri' = ri + 1
                         /\ pc' = next
    /\ UNCHANGED <<user, repos, events, ei, daily_activity, hourly_activity,
                   event_types, result>>

\* line 155: events = github_api(f"/users/{USERNAME}/events/public", ...) or []
FetchEvents ==
    /\ pc = "events"
    /\ \E resp \in EventResponses :
         /\ queries' = Append(queries, Query("events", "", resp))
         /\ IF resp.kind = "raise"
            THEN /\ pc' = "raised"
                 /\ events' = events
            ELSE /\ events' = OrElse(github_api(resp), << >>)
                 /\ pc' = IF events' = << >> THEN "return" ELSE "event_loop"
    /\ ei' = 1
    /\ UNCHANGED <<user, repos, ri, lang_totals, repo_data,
                   daily_activity, hourly_activity, event_types, result>>

\* lines 162-172: one iteration of `for event in events`
EventLoop ==
    /\ pc = "event_loop"
    /\ ei <= Len(events)
    /\ LET acc == HandleEvent([daily  |-> daily_activity,
                               hourly |-> hourly_activity,
                               types  |-> event_types,
                               raised |-> FALSE], events[ei])
       IN /\ daily_activity' = acc.daily
          /\ hourly_activity' = acc.hourly
          /\ event_types' = acc.types
          /\ IF acc.raised
             THEN pc' = "raised" /\ ei' = ei
             ELSE /\ ei' = ei + 1
                  /\ pc' = IF ei = Len(events) THEN "return" ELSE "event_loop"
    /\ UNCHANGED <<queries, user, repos, ri, lang_totals, repo_data, events,
                   result>>

\* lines 174-183: return {...}
Return ==
    /\ pc = "return"
    /\ result' = ProfileStats
    /\ pc' = "done"
    /\ UNCHANGED <<queries, user, repos, ri, lang_totals, repo_data, events,
                   ei, daily_activity, hourly_activity, event_types>>

FetchNext ==
    \/ FetchProfile
    \/ FetchRepos
    \/ RepoLoop
    \/ FetchEvents
    \/ EventLoop
    \/ Return

\* ---------------------------------------------------------------------
\* ProfileStats values handed to the renderers
\* ---------------------------------------------------------------------
MaxLangs == 2

LangUniverse == {"CSS", "Python", "Zig"}

\* the language names of the model in the order Python compares strings
LangOrder ==
    <<"C", "CSS", "Dart", "Dockerfile", "Elm", "Go", "HTML", "Java", "JavaScript",
      "Jupyter Notebook", "Kotlin", "PHP", "Python", "R", "Ruby", "Rust", "Scala",
      "Shell", "TypeScript", "Vue", "Zig">>

LangCode(l) == CHOOSE i \in DOMAIN LangOrder : LangOrder[i] = l

ByteChoices == {0, 4, 10, 20, 35, 50}

\* languageBytes: every dict of at most MaxLangs languages, in every
\* insertion order
LangDicts ==
    UNION { {s \in [1..n -> LangUniverse \X ByteChoices] :
                \A i, j \in 1..n : i # j => s[i][1] # s[j][1]}
            : n \in 0..MaxLangs }

RenderRepoLists ==
    { << >>,
      << [name |-> "solo", language |-> "Other", stars |-> 0, size |-> 0] >>,
      << [name |-> "api",  language |-> "Python", stars |-> 2, size |-> 1200],
         [name |-> "site", language |-> "CSS",    stars |-> 0, size |-> 2400],
         [name |-> "cli",  language |-> "Zig",    stars |-> 5, size |-> 1700] >> }

TodayChoices == {40}

\* a day of 2024 by its number in the year, as <<month, day>>
RECURSIVE MonthDay(_, _)
MonthDay(doy, m) ==
    IF doy <= DaysInMonth(m) THEN <<m, doy>>
    ELSE MonthDay(doy - DaysInMonth(m), m + 1)

\* (today - timedelta(days=i)).strftime("%Y-%m-%d"), as the number yyyymmdd
StrfTime(doy) == LET md == MonthDay(doy, 1) IN 20240000 + md[1] * 100 + md[2]

DailyChoices(now) ==
    { << >>,
      << <<StrfTime(now), 0>>, <<StrfTime(now - 1), 0>> >>,
      << <<StrfTime(now - 2), 12>>, <<StrfTime(now), 3>>, <<StrfTime(now - 10), 1>> >> }

RECURSIVE SumRepoStars(_)
SumRepoStars(rs) == IF rs = << >> THEN 0 ELSE rs[1].stars + SumRepoStars(Tail(rs))

MakeStats(rs, ls, da) ==
    [user            |-> ProfileBody,
     repos           |-> rs,
     languages       |-> ls,
     daily_activity  |-> da,
     hourly_activity |-> << >>,
     event_types     |-> << >>,
     total_repos     |-> Len(rs),
     total_stars     |-> SumRepoStars(rs)]

RenderData(now) ==
    {MakeStats(rs, ls, da) : rs \in RenderRepoLists, ls \in LangDicts,
                             da \in DailyChoices(now)}

\* languageBytes for the Code DNA renderer: the first n of these languages,
\* inserted in this order, with byte counts following a pattern
MaxDnaLangs == 10

DnaNames ==
    <<"Python", "CSS", "Go", "Rust", "Java", "Ruby", "PHP", "C", "HTML", "Zig", "Elm">>

BytePatterns == {"rising", "falling", "flat", "zero", "threshold", "mixed"}

BytesAt(pattern, i, n) ==
    IF pattern = "rising" THEN 100 * i
    ELSE IF pattern = "falling" THEN 100 * (n + 1 - i)
    ELSE IF pattern = "flat" THEN 500
    ELSE IF pattern = "zero" THEN 0
    ELSE IF pattern = "threshold" THEN (IF i = n THEN 1000 ELSE 700)
    ELSE ((i * 7) % 11) * 100 + 50

DnaLangDicts ==
    {[i \in 1..n |-> <<DnaNames[i], BytesAt(p, i, n)>>]
        : n \in 0..MaxDnaLangs, p \in BytePatterns}

DnaData == {MakeStats(<< >>, ls, << >>) : ls \in DnaLangDicts}

\* languageBytes for the Skill Tree renderer: b Backend languages, f Frontend
\* ones, v DevOps ones and o languages of no category
MaxBackend == 8

BackendNames == <<"Python", "Java", "Go", "Rust", "Ruby", "PHP", "C", "Kotlin", "Scala">>
FrontendNames == <<"CSS", "HTML">>
DevOpsNames == <<"Shell">>
OtherNames == <<"Zig", "Elm">>

TreeLangDicts ==
    {LET names == SubSeq(BackendNames, 1, b) \o SubSeq(OtherNames, 1, o)
                  \o SubSeq(FrontendNames, 1, f) \o SubSeq(DevOpsNames, 1, v)
     IN [i \in DOMAIN names |-> <<names[i], BytesAt("mixed", i, Len(names))>>]
        : b \in 0..MaxBackend, f \in 0..2, v \in 0..1, o \in 0..2}

TreeData == {MakeStats(<< >>, ls, << >>) : ls \in TreeLangDicts}

\* Activity histories for the Code Weather renderer: the count of today, of
\* yesterday, of each of the five days before, of each of the days 7..28
\* days ago and of the day 29 days ago; a day without events has no entry
TodayCounts == {0, 1, 2, 3, 5, 6, 9, 10, 11, 16, 17}
YesterdayCounts == {1, 4, 6, 9, 10, 12}
WeekCounts == {0, 6, 9, 10}
MonthCounts == {0, 7, 9, 10}
OldestCounts == {0, 16, 17}

WeatherHistory(now, t, y, w, m, x) ==
    LET CountAt(i) == IF i = 0 THEN t ELSE IF i = 1 THEN y ELSE IF i < 7 THEN w
                      ELSE IF i < 29 THEN m ELSE x
    IN SelectSeq([k \in 1..30 |-> <<StrfTime(now - (k - 1)), CountAt(k - 1)>>],
                 LAMBDA e : e[2] > 0)

WeatherData(now) ==
    {MakeStats(<< >>, << >>, WeatherHistory(now, t, y, w, m, x)) :
        t \in TodayCounts, y \in YesterdayCounts, w \in WeekCounts,
        m \in MonthCounts, x \in OldestCounts}

\* ---------------------------------------------------------------------
\* Helpers shared by the renderers
\* ---------------------------------------------------------------------
Take(s, n) == SubSeq(s, 1, IF Len(s) < n THEN Len(s) ELSE n)

MaxOf(S) == CHOOSE x \in S : \A y \in S : y <= x

Values(d) == {d[i][2] : i \in DOMAIN d}

\* sorted(pairs, key=lambda x: x[1], reverse=True): descending by the second
\* component, pairs with equal keys staying in their original order
SortedByBytes(pairs) ==
    LET n == Len(pairs)
        pos(i) == Cardinality({j \in 1..n : pairs[j][2] > pairs[i][2]})
                  + Cardinality({j \in 1..(i - 1) : pairs[j][2] = pairs[i][2]}) + 1
    IN [p \in 1..n |-> pairs[CHOOSE i \in 1..n : pos(i) = p]]

\* a raised exception leaves no document
Crashed == [ok |-> FALSE]

\* ---------------------------------------------------------------------
\* Widget 1: generate_code_dna (lines 277-411)
\* ---------------------------------------------------------------------
num_points == 60

SortedItems_unsorted(languages) == languages

\* sorted(languages.items()): ascending by language name
SortedItems(languages) ==
    LET n == Len(languages)
        pos(i) == Cardinality({j \in 1..n :
                      LangCode(languages[j][1]) < LangCode(languages[i][1])}) + 1
    IN [p \in 1..n |-> languages[CHOOSE i \in 1..n : pos(i) = p]]

\* Four hex digits of a 16-bit value
Hex4(n) == << n \div 4096, (n \div 256) % 16, (n \div 16) % 16, n % 16 >>

RECURSIVE Mix(_, _, _)
Mix(h, items, k) ==
    IF items = << >> THEN h
    ELSE Mix((h * k + LangCode(items[1][1]) * 1009 + items[1][2] * 37 + 11) % 65536,
             Tail(items), k)

\* hashlib.md5(json.dumps(items).encode()).hexdigest(), its first 8 digits.
\* MD5 itself is outside the model; it is replaced by a digest with the
\* one property the program relies on: it is a function of the serialized
\* text, order of the items included.
Md5Hex(items) == Hex4(Mix(4660, items, 31)) \o Hex4(Mix(22136, items, 131))

RECURSIVE IntOfHex(_)
\* int(digits, 16)
IntOfHex(ds) ==
    IF ds = << >> THEN 0 ELSE IntOfHex(SubSeq(ds, 1, Len(ds) - 1)) * 16 + ds[Len(ds)]

PhaseSlice_five(h) == SubSeq(h, 1, 5)

\* data_hash[:4]
PhaseSlice(h) == SubSeq(h, 1, 4)

\* data_hash[4:8]
FreqSlice(h) == SubSeq(h, 5, 8)

\* phase_offset = int(data_hash[:4], 16) / 65535 * math.pi * 2, as the
\* fraction num/den of pi
PhaseOffset(h) == [num |-> 2 * IntOfHex(PhaseSlice(h)), den |-> 65535]

\* freq_mod = 0.8 + (int(data_hash[4:8], 16) / 65535) * 0.6, as num/den
FreqMod(h) == [num |-> 8 * 65535 + 6 * IntOfHex(FreqSlice(h)), den |-> 10 * 65535]

\* the denominator of every angle: angles are multiples of pi / AngleUnit
AngleUnit == 39321000

\* angle = t * math.pi * 4 * freq_mod + phase_offset with t = i / num_points,
\* as the numerator of a fraction of pi over AngleUnit
AngleNum(i, freq, phase) == i * 4 * freq.num + 600 * phase.num

\* x = helix_start_x + t * helix_width, times num_points
XNum(i) == 32 * num_points + i * (800 - 32 - 32)

generate_code_dna(d) ==
    LET languages    == d.languages
        total        == SumValues(languages)
        total_bytes  == IF total = 0 THEN 1 ELSE total
        sorted_langs == Take(SortedByBytes(languages), 8)
        data_hash    == Md5Hex(SortedItems(languages))
        phase_offset == PhaseOffset(data_hash)
        freq_mod     == FreqMod(data_hash)
        nl           == Len(sorted_langs)
        LangAt(idx)  == IF nl > 0 THEN sorted_langs[idx + 1][1] ELSE "Other"
        rungIdx      == {i \in 0..(num_points - 1) : i % 3 = 0}
        nodeIdx      == {i \in 0..num_points : i % 3 = 0}
        legend       == Take(sorted_langs, 6)
        \* every divisor the function divides by on this input
        divisors     == {num_points, 65535}
                        \cup (IF nl > 0 THEN {nl, total_bytes} ELSE {})
    IN IF 0 \in divisors THEN Crashed
       ELSE [ok           |-> TRUE,
             data_hash    |-> data_hash,
             phase_offset |-> phase_offset,
             freq_mod     |-> freq_mod,
             sorted_langs |-> sorted_langs,
             points       |-> [i \in 0..num_points |->
                                 <<XNum(i), AngleNum(i, freq_mod, phase_offset)>>],
             rungs        |-> [i \in rungIdx |->
                                 [angle |-> AngleNum(i, freq_mod, phase_offset),
                                  lang  |-> LangAt(IF nl > 0 THEN i % nl ELSE 0)]],
             nodes        |-> [i \in nodeIdx |->
                                 [angle |-> AngleNum(i, freq_mod, phase_offset),
                                  lang  |-> LangAt(IF nl > 0 THEN (i \div 3) % nl ELSE 0)]],
             legend       |-> [k \in DOMAIN legend |->
                                 [lang |-> legend[k][1],
                                  pct  |-> [num |-> legend[k][2] * 100, den |-> total_bytes]]],
             short_hash   |-> data_hash,
             \* header, card, 2 titles, rungs, defs, 2 strands, node pairs,
             \* 3 per legend entry, hash id, footer
             elements     |-> 9 + Cardinality(rungIdx) + 2 * Cardinality(nodeIdx)
                              + 3 * Len(legend)]

\* ---------------------------------------------------------------------
\* Widget 2: generate_repo_skyline (lines 418-529)
\* ---------------------------------------------------------------------
\* sorted(repos, key=size, reverse=True): stable, descending by size
SortedBySize(rs) ==
    LET n == Len(rs)
        pos(i) == Cardinality({j \in 1..n : rs[j].size > rs[i].size})
                  + Cardinality({j \in 1..(i - 1) : rs[j].size = rs[i].size}) + 1
    IN [p \in 1..n |-> rs[CHOOSE i \in 1..n : pos(i) = p]]

Placeholder == [name |-> "no-repos", language |-> "Other", stars |-> 0, size |-> 100]

SkylineRepos_first18(d) ==
    LET sel == Take(d.repos, 18)
    IN IF sel = << >> THEN << Placeholder >> ELSE sel

\* lines 430-432: the 18 largest repositories, or the placeholder
SkylineRepos(d) ==
    LET sel == Take(SortedBySize(d.repos), 18)
    IN IF sel = << >> THEN << Placeholder >> ELSE sel

BuildingWidth_uncapped(num_buildings) ==
    [num |-> (800 - 80) - 6 * (num_buildings - 1), den |-> num_buildings]

\* line 442: min(36, (building_area_width - gap * (n - 1)) / n), a fraction
BuildingWidth(num_buildings) ==
    LET fit == (800 - 80) - 6 * (num_buildings - 1)
    IN IF 36 * num_buildings <= fit
       THEN [num |-> 36, den |-> 1]
       ELSE [num |-> fit, den |-> num_buildings]

\* the repository names, numbered
KnownNames ==
    <<"no-repos", "solo", "api", "site", "cli",
      "r01", "r02", "r03", "r04", "r05", "r06", "r07", "r08", "r09", "r10",
      "r11", "r12", "r13", "r14", "r15", "r16", "r17", "r18", "r19", "r20">>

NameCode(name) == CHOOSE i \in DOMAIN KnownNames : KnownNames[i] = name

\* the values PYTHONHASHSEED, left unset, can take in a process
HashSeeds == {0, 1}

\* line 490: hash(f"{name}{wx}{wy}").  CPython keys the hash of a str with
\* the seed of the process; a stand-in keyed the same way
StrHash(seed, name, wx, wy) ==
    (NameCode(name) * 7 + wx * 3 + wy * 5 + 1) * (seed + 1) + seed

\* lines 484-493: the windows of one building of width building_width and
\* height bh (fractions), each with its lit value
Windows(seed, name, building_width, bh) ==
    LET window_rows == bh.num \div (16 * bh.den)
        cols        == building_width.num \div (12 * building_width.den)
        window_cols == IF cols > 1 THEN cols ELSE 1
    IN {[wx |-> wx, wy |-> wy, lit |-> (StrHash(seed, name, wx, wy) % 3) # 0] :
           <<wx, wy>> \in
              {w \in (0..(window_cols - 1)) \X (0..(window_rows - 1)) :
                  \* win_x < x + building_width - 4 and win_y < ground_y - 6
                  /\ (10 + 10 * w[1]) * building_width.den < building_width.num
                  /\ (16 + 14 * w[2]) * bh.den < bh.num}}

generate_repo_skyline(d, seed) ==
    LET rs            == SkylineRepos(d)
        num_buildings == Len(rs)
        gap           == 6
        \* max(r.get("size", 1) for r in repos) or 1
        biggest       == IF rs = << >> THEN 0 ELSE MaxOf({rs[i].size : i \in DOMAIN rs})
        max_size      == IF biggest = 0 THEN 1 ELSE biggest
        building_width == BuildingWidth(num_buildings)
        \* num_buildings * building_width + (num_buildings - 1) * gap
        total_buildings_width ==
            [num |-> num_buildings * building_width.num
                     + (num_buildings - 1) * gap * building_width.den,
             den |-> building_width.den]
        \* (width - total_buildings_width) / 2
        start_x       == [num |-> 800 * total_buildings_width.den
                                  - total_buildings_width.num,
                          den |-> 2 * total_buildings_width.den]
        Bar(i)        == LET repo == rs[i]
                             bh == [num |-> 25 * max_size + repo.size * 145,
                                    den |-> max_size]
                         IN [name    |-> repo.name,
                             size    |-> repo.size,
                             \* start_x + i * (building_width + gap), from 0
                             x       |-> [num |-> start_x.num + 2 * (i - 1)
                                                  * (building_width.num
                                                     + gap * building_width.den),
                                          den |-> start_x.den],
                             bh      |-> bh,
                             windows |-> Windows(seed, repo.name, building_width, bh),
                             antenna |-> bh.num > 100 * bh.den,
                             stars   |-> repo.stars,
                             lang    |-> repo.language]
        top_langs     == Take(SortedByBytes(d.languages), 5)
        \* max() of no repository raises, as does dividing by none
        divisors      == {num_buildings, max_size}
    IN IF rs = << >> \/ 0 \in divisors THEN Crashed
       ELSE [ok             |-> TRUE,
             repos          |-> rs,
             max_size       |-> max_size,
             building_width |-> building_width,
             total_buildings_width |-> total_buildings_width,
             start_x        |-> start_x,
             bars           |-> [i \in DOMAIN rs |-> Bar(i)],
             top_langs      |-> [k \in DOMAIN top_langs |-> top_langs[k][1]],
             elements       |-> 10 + 4 * num_buildings + 2 * Len(top_langs)]

\* Repository lists for the skyline: n repositories whose sizes follow one
\* of a few patterns
MaxSkylineRepos == 19

SizePatterns == {"rising", "falling", "flat", "zero", "threshold", "mixed"}

SizeAt(pattern, i, n) ==
    IF pattern = "rising" THEN 100 * i
    ELSE IF pattern = "falling" THEN 100 * (n + 1 - i)
    ELSE IF pattern = "flat" THEN 500
    ELSE IF pattern = "zero" THEN 0
    ELSE IF pattern = "threshold" THEN (IF i = n THEN 29 ELSE 15)
    ELSE ((i * 7) % 11) * 100

SkylineRepoLists ==
    {[i \in 1..n |-> [name     |-> KnownNames[5 + i], language |-> "Python",
                      stars    |-> i % 3,             size     |-> SizeAt(p, i, n)]]
        : n \in 0..MaxSkylineRepos, p \in SizePatterns}

SkylineData == {MakeStats(rs, << >>, << >>) : rs \in SkylineRepoLists}

\* ---------------------------------------------------------------------
\* Widget 3: generate_skill_tree (lines 536-663)
\* ---------------------------------------------------------------------
Categories == <<"Frontend", "Backend", "Data & ML", "DevOps">>

CategoryLangs(cat) ==
    IF cat = "Frontend"
    THEN {"JavaScript", "TypeScript", "HTML", "CSS", "SCSS", "Vue", "Svelte", "Dart"}
    ELSE IF cat = "Backend"
    THEN {"Python", "Java", "Go", "Rust", "Ruby", "PHP", "C#", "Kotlin", "Scala",
          "Elixir", "Perl", "C", "C++", "Haskell"}
    ELSE IF cat = "Data & ML"
    THEN {"Jupyter Notebook", "R", "Lua"}
    ELSE {"Shell", "Dockerfile"}

AllCategorized == UNION {CategoryLangs(Categories[c]) : c \in DOMAIN Categories}

\* lines 561-573: the non-empty categories in table order, then "Other"
Categorized(sorted_langs) ==
    LET Members(cat) == SelectSeq(sorted_langs, LAMBDA x : x[1] \in CategoryLangs(cat))
        known == SelectSeq([c \in DOMAIN Categories |->
                               [cat |-> Categories[c], items |-> Members(Categories[c])]],
                           LAMBDA e : e.items # << >>)
        uncategorized == SelectSeq(sorted_langs, LAMBDA x : x[1] \notin AllCategorized)
    IN IF uncategorized # << >>
       THEN Append(known, [cat |-> "Other", items |-> uncategorized])
       ELSE known

\* line 591: max_bytes = max(languages.values()) if languages else 1
MaxBytes(languages) ==
    IF languages # << >> THEN MaxOf(Values(languages)) ELSE 1

\* line 611: the denominator of pct for the rows of one category
SkillDenominator(languages, items) == MaxBytes(languages)

Level_nonStrict(bytes_count, max_bytes) ==
    IF 10 * bytes_count >= 7 * max_bytes THEN "Master"
    ELSE IF 10 * bytes_count >= 4 * max_bytes THEN "Expert"
    ELSE IF 10 * bytes_count >= 2 * max_bytes THEN "Adept"
    ELSE IF 100 * bytes_count >= 8 * max_bytes THEN "Skilled"
    ELSE "Novice"

\* lines 611-629: pct = bytes_count / max_bytes against 0.7, 0.4, 0.2, 0.08
\* (max_bytes > 0)
Level(bytes_count, max_bytes) ==
    IF 10 * bytes_count > 7 * max_bytes THEN "Master"
    ELSE IF 10 * bytes_count > 4 * max_bytes THEN "Expert"
    ELSE IF 10 * bytes_count > 2 * max_bytes THEN "Adept"
    ELSE IF 100 * bytes_count > 8 * max_bytes THEN "Skilled"
    ELSE "Novice"

ShownRows_seven(items) == Take(items, 7)

\* line 607: items[:6], the rows drawn of a category
ShownRows(items) == Take(items, 6)

generate_skill_tree(d) ==
    LET languages    == d.languages
        sorted_langs == SortedByBytes(languages)
        categorized  == Categorized(sorted_langs)
        num_cats     == Len(categorized)
        cols         == IF num_cats > 1 THEN num_cats ELSE 1
        max_bytes    == MaxBytes(languages)
        Rows(c)      == LET shown == ShownRows(categorized[c].items)
                            den   == SkillDenominator(languages, categorized[c].items)
                        IN [k \in DOMAIN shown |->
                              [cat   |-> categorized[c].cat,
                               lang  |-> shown[k][1],
                               bytes |-> shown[k][2],
                               den   |-> den,
                               level |-> IF den = 0 THEN "none"
                                         ELSE Level(shown[k][2], den)]]
        columns      == [c \in DOMAIN categorized |-> Rows(c)]
        divisors     == {cols}
                        \cup UNION {{columns[c][k].den : k \in DOMAIN columns[c]}
                                    : c \in DOMAIN columns}
                        \cup (IF sorted_langs # << >> THEN {max_bytes} ELSE {})
    IN IF 0 \in divisors THEN Crashed
       ELSE [ok           |-> TRUE,
             col_width    |-> [num |-> 800 - 64, den |-> cols],
             cat_names    |-> [c \in DOMAIN categorized |-> categorized[c].cat],
             columns      |-> columns,
             max_bytes    |-> max_bytes,
             total_langs  |-> Len(sorted_langs),
             master_count |-> Cardinality({i \in DOMAIN sorted_langs :
                                             10 * sorted_langs[i][2] > 7 * max_bytes}),
             elements     |-> 6 + 3 * num_cats]

\* ---------------------------------------------------------------------
\* Widget 4: generate_code_weather (lines 670-842)
\* ---------------------------------------------------------------------
RECURSIVE SumSeq(_)
SumSeq(s) == IF s = << >> THEN 0 ELSE s[1] + SumSeq(Tail(s))

\* lines 698-722 and 783-792: the band of a day's count
Band(count) ==
    IF count = 0 THEN "Cloudy"
    ELSE IF count <= 2 THEN "Partly Cloudy"
    ELSE IF count <= 5 THEN "Sunny"
    ELSE IF count <= 10 THEN "Hot"
    ELSE "Thunderstorm"

Temp_uncapped(count) ==
    IF count = 0 THEN 0
    ELSE IF count <= 2 THEN count * 12
    ELSE IF count <= 5 THEN count * 10
    ELSE IF count <= 10 THEN count * 8
    ELSE count * 6

\* lines 698-722: temp
Temp(count) ==
    IF count = 0 THEN 0
    ELSE IF count <= 2 THEN count * 12
    ELSE IF count <= 5 THEN count * 10
    ELSE IF count <= 10 THEN count * 8
    ELSE IF 99 < count * 6 THEN 99 ELSE count * 6

\* line 727: avg_30 * 1.2 is a product of doubles.  Where the exact product
\* equals avg_7, the rounded one falls below it at these 30-day totals (all
\* the totals under 700 where it does; avg_30 * 0.8 never rounds above)
RoundsBelow(sum30) == sum30 \in {175, 275, 350, 550, 625}

\* lines 725-733: avg_7 = sum7 / len7 against avg_30 = sum30 / len30 times
\* 1.2 and 0.8, for 30-day totals under 700
Trend(sum7, len7, sum30, len30) ==
    IF sum7 * len30 * 10 > sum30 * len7 * 12 THEN "up"
    ELSE IF /\ sum7 * len30 * 10 = sum30 * len7 * 12
            /\ len7 = 7 /\ len30 = 30 /\ RoundsBelow(sum30) THEN "up"
    ELSE IF sum7 * len30 * 10 < sum30 * len7 * 8 THEN "down"
    ELSE "steady"

\* line 810: max(last_30) if last_30 and max(last_30) > 0 else 1
MaxVal(last_30) ==
    IF last_30 # << >> /\ MaxOf({last_30[i] : i \in DOMAIN last_30}) > 0
    THEN MaxOf({last_30[i] : i \in DOMAIN last_30})
    ELSE 1

\* line 766
day_names == <<"Sun", "Mon", "Tue", "Wed", "Thu", "Fri", "Sat">>

\* datetime.weekday() of a day of 2024 given by its number in the year:
\* 0 for Monday .. 6 for Sunday (1 January 2024 is a Monday)
Weekday(doy) == (doy - 1) % 7

\* line 771: day_names[day.weekday()] if day.weekday() < 7 else "?"
DayName(doy) == IF Weekday(doy) < 7 THEN day_names[Weekday(doy) + 1] ELSE "?"

generate_code_weather(d, now) ==
    LET daily   == d.daily_activity
        \* last_30[i + 1] is the count of the day i days ago
        last_30 == [k \in 1..30 |-> DictGet(daily, StrfTime(now - (k - 1)), 0)]
        last_7  == SubSeq(last_30, 1, 7)
        len7    == IF Len(last_7) > 1 THEN Len(last_7) ELSE 1
        len30   == IF Len(last_30) > 1 THEN Len(last_30) ELSE 1
        today_count == last_30[1]
        max_val == MaxVal(last_30)
        divisors == {len7, len30, 7, 30, max_val}
    IN IF 0 \in divisors THEN Crashed
       ELSE [ok          |-> TRUE,
             today_count |-> today_count,
             avg_7       |-> [num |-> SumSeq(last_7), den |-> len7],
             avg_30      |-> [num |-> SumSeq(last_30), den |-> len30],
             weather     |-> Band(today_count),
             temp        |-> Temp(today_count),
             trend       |-> Trend(SumSeq(last_7), len7, SumSeq(last_30), len30),
             \* forecast[i + 1] is column i, the day 6 - i days ago
             forecast    |-> [c \in 1..7 |->
                                [day   |-> now - (7 - c),
                                 day_name |-> DayName(now - (7 - c)),
                                 count |-> last_7[8 - c],
                                 icon  |-> Band(last_7[8 - c])]],
             max_val     |-> max_val,
             bars        |-> [k \in 1..30 |-> [num |-> last_30[k], den |-> max_val]],
             elements    |-> 12 + 4 * 7 + 30]

\* ---------------------------------------------------------------------
\* main, the render pass (lines 1031-1036)
\* ---------------------------------------------------------------------
VARIABLES
    data,      \* the ProfileStats handed to the renderers
    today,     \* datetime.now(), as the day of the year
    rpc,       \* position in the render pass
    dna,       \* result of generate_code_dna
    skyline,   \* result of generate_repo_skyline
    tree,      \* result of generate_skill_tree
    weather    \* result of generate_code_weather

renderVars == <<data, today, rpc, dna, skyline, tree, weather>>

NoOutput == [ok |-> FALSE, pending |-> TRUE]

RenderIdle ==
    /\ data = MakeStats(<< >>, << >>, << >>)
    /\ today = 0
    /\ rpc = "idle"
    /\ dna = NoOutput
    /\ skyline = NoOutput
    /\ tree = NoOutput
    /\ weather = NoOutput

RenderInit ==
    /\ today \in TodayChoices
    /\ data \in RenderData(today)
    /\ rpc = "dna"
    /\ dna = NoOutput
    /\ skyline = NoOutput
    /\ tree = NoOutput
    /\ weather = NoOutput

\* an exception raised by a renderer ends main
After(out, next) == IF out.ok THEN next ELSE "crashed"

RenderDna ==
    /\ rpc = "dna"
    /\ dna' = generate_code_dna(data)
    /\ rpc' = After(dna', "skyline")
    /\ UNCHANGED <<data, today, skyline, tree, weather>>

RenderSkyline ==
    /\ rpc = "skyline"
    /\ skyline' = generate_repo_skyline(data, hashseed)
    /\ rpc' = After(skyline', "tree")
    /\ UNCHANGED <<data, today, dna, tree, weather>>

RenderTree ==
    /\ rpc = "tree"
    /\ tree' = generate_skill_tree(data)
    /\ rpc' = After(tree', "weather")
    /\ UNCHANGED <<data, today, dna, skyline, weather>>

RenderWeather ==
    /\ rpc = "weather"
    /\ weather' = generate_code_weather(data, today)
    /\ rpc' = After(weather', "rendered")
    /\ UNCHANGED <<data, today, dna, skyline, tree>>

RenderNext ==
    \/ RenderDna
    \/ RenderSkyline
    \/ RenderTree
    \/ RenderWeather

\* ---------------------------------------------------------------------
\* get_mock_data (lines 186-226) and main's choice of data (lines 1017-1023)
\* ---------------------------------------------------------------------
MockRepo(name, language, stars, size, languages) ==
    [name |-> name, language |-> language, stars |-> stars, size |-> size,
     languages |-> languages]

\* max(0, int(5 * sin(i * 0.5) + 6 + (i % 3))) for i = 0..29
MockDaily ==
    <<6, 9, 12, 10, 11, 10, 6, 5, 4, 1, 2, 4, 4, 8, 11, 10, 11, 11, 8, 6, 5, 1,
      2, 3, 3, 6, 10, 10, 11, 12>>

\* max(1, int(8 * sin((h - 14) * 0.3) + 8)) for h = 0..23
MockHourly ==
    <<14, 13, 11, 9, 6, 4, 2, 1, 1, 1, 1, 1, 3, 5, 8, 10, 12, 14, 15, 15, 15,
      14, 13, 11>>

get_mock_data(now) ==
    [user |-> << <<"login", "IAmMasterCraft">>, <<"name", "Boluwaji Akinsefunmi">>,
                 <<"public_repos", 28>>, <<"followers", 45>>, <<"following", 30>> >>,
     repos |-> <<
        MockRepo("awesome-project", "TypeScript", 12, 2400,
                 << <<"TypeScript", 45000>>, <<"JavaScript", 12000>>, <<"CSS", 8000>> >>),
        MockRepo("api-gateway", "Python", 8, 1800,
                 << <<"Python", 38000>>, <<"Shell", 2000>> >>),
        MockRepo("react-dashboard", "JavaScript", 15, 3200,
                 << <<"JavaScript", 52000>>, <<"CSS", 15000>>, <<"HTML", 8000>> >>),
        MockRepo("ml-pipeline", "Python", 6, 1200,
                 << <<"Python", 28000>>, <<"Jupyter Notebook", 15000>> >>),
        MockRepo("devops-toolkit", "Shell", 4, 800,
                 << <<"Shell", 12000>>, <<"Dockerfile", 3000>> >>),
        MockRepo("portfolio-site", "HTML", 3, 1500,
                 << <<"HTML", 18000>>, <<"CSS", 22000>>, <<"JavaScript", 8000>> >>),
        MockRepo("rust-cli", "Rust", 7, 900, << <<"Rust", 15000>> >>),
        MockRepo("go-microservice", "Go", 5, 700, << <<"Go", 12000>> >>),
        MockRepo("vue-components", "Vue", 9, 2100,
                 << <<"Vue", 25000>>, <<"JavaScript", 10000>>, <<"CSS", 5000>> >>),
        MockRepo("data-viz", "JavaScript", 4, 1100,
                 << <<"JavaScript", 20000>>, <<"HTML", 5000>>, <<"CSS", 7000>> >>),
        MockRepo("auth-service", "TypeScript", 6, 1400, << <<"TypeScript", 30000>> >>),
        MockRepo("mobile-app", "Dart", 3, 2800, << <<"Dart", 40000>> >>),
        MockRepo("algorithms", "Python", 2, 600, << <<"Python", 18000>> >>),
        MockRepo("css-framework", "CSS", 11, 1900,
                 << <<"CSS", 35000>>, <<"HTML", 5000>>, <<"JavaScript", 3000>> >>) >>,
     languages |-> << <<"JavaScript", 105000>>, <<"TypeScript", 75000>>,
                      <<"Python", 84000>>, <<"CSS", 92000>>, <<"HTML", 36000>>,
                      <<"Vue", 25000>>, <<"Shell", 14000>>, <<"Rust", 15000>>,
                      <<"Go", 12000>>, <<"Dart", 40000>>, <<"Dockerfile", 3000>>,
                      <<"Jupyter Notebook", 15000>> >>,
     daily_activity  |-> [k \in 1..30 |-> <<StrfTime(now - (k - 1)), MockDaily[k]>>],
     hourly_activity |-> [k \in 1..24 |-> <<k - 1, MockHourly[k]>>],
     event_types     |-> << <<"PushEvent", 120>>, <<"CreateEvent", 25>>,
                            <<"PullRequestEvent", 18>>, <<"IssuesEvent", 10>>,
                            <<"WatchEvent", 15>> >>,
     total_repos     |-> 14,
     total_stars     |-> 95]

UsesApi_always(tok) == TRUE

\* line 1018: if GITHUB_TOKEN
UsesApi(tok) == tok # ""

\* the dict fetch_user_data returned, as main holds it
StatsOf(res) == [f \in DOMAIN res \ {"returned"} |-> res[f]]

\* lines 1018-1023: main starts the aggregator or takes the mock data
MainStart ==
    /\ rpc = "main"
    /\ IF UsesApi(GITHUB_TOKEN)
       THEN /\ pc' = "profile"
            /\ rpc' = "fetch"
            /\ data' = data
       ELSE /\ data' = get_mock_data(today)
            /\ rpc' = "dna"
            /\ pc' = pc
    /\ UNCHANGED <<queries, user, repos, ri, lang_totals, repo_data, events, ei,
                   daily_activity, hourly_activity, event_types, result,
                   today, dna, skyline, tree, weather>>

\* line 1020: fetch_user_data runs
MainFetch ==
    /\ rpc = "fetch"
    /\ FetchNext
    /\ UNCHANGED renderVars

\* line 1020: its result becomes data; an exception it raised ends main
MainFetched ==
    /\ rpc = "fetch"
    /\ pc \in {"done", "raised"}
    /\ IF pc = "done"
       THEN /\ data' = StatsOf(result)
            /\ rpc' = "dna"
       ELSE /\ data' = data
            /\ rpc' = "crashed"
    /\ UNCHANGED <<fetchVars, today, dna, skyline, tree, weather>>

MainNext ==
    \/ MainStart
    \/ MainFetch
    \/ MainFetched

\* ---------------------------------------------------------------------
\* Two invocations of generate_code_dna
\* ---------------------------------------------------------------------
VARIABLES
    data_b,    \* the ProfileStats of the second invocation
    dna_b      \* its result

twinVars == <<data_b, dna_b>>

TwinIdle ==
    /\ data_b = MakeStats(<< >>, << >>, << >>)
    /\ dna_b = NoOutput

\* the same language-to-bytes pairs, in whatever insertion order
SameMapping(l1, l2) ==
    {<<l1[i][1], l1[i][2]>> : i \in DOMAIN l1} = {<<l2[i][1], l2[i][2]>> : i \in DOMAIN l2}

\* every insertion order of the pairs of a dict
Reorderings(ls) ==
    {s \in [DOMAIN ls -> {ls[i] : i \in DOMAIN ls}] :
        \A i, j \in DOMAIN ls : i # j => s[i] # s[j]}

TwinInit ==
    /\ today \in TodayChoices
    /\ data \in {MakeStats(<< >>, ls, << >>) : ls \in LangDicts}
    /\ data_b \in {MakeStats(rs, ls, da) : rs \in RenderRepoLists \ {<< >>},
                                           ls \in Reorderings(data.languages),
                                           da \in DailyChoices(today) \ {<< >>}}
    /\ rpc = "twin"
    /\ dna = NoOutput
    /\ dna_b = NoOutput
    /\ skyline = NoOutput
    /\ tree = NoOutput
    /\ weather = NoOutput

TwinRunA ==
    /\ rpc = "twin"
    /\ dna.ok = FALSE
    /\ dna' = generate_code_dna(data)
    /\ UNCHANGED <<data, today, rpc, skyline, tree, weather, data_b, dna_b>>

TwinRunB ==
    /\ rpc = "twin"
    /\ dna_b.ok = FALSE
    /\ dna_b' = generate_code_dna(data_b)
    /\ UNCHANGED <<data, today, rpc, skyline, tree, weather, data_b, dna>>

TwinNext ==
    \/ TwinRunA
    \/ TwinRunB

\* ---------------------------------------------------------------------
\* Two runs of the program, as far as generate_repo_skyline
\* ---------------------------------------------------------------------
VARIABLES
    hashseed_b,  \* the seed of the second process
    skyline_b    \* the skyline of the second run, over data_b

runVars == <<hashseed_b, skyline_b>>

RunIdle ==
    /\ hashseed_b = 0
    /\ skyline_b = NoOutput

RunData ==
    {MakeStats(rs, ls, << >>) : rs \in RenderRepoLists,
                                ls \in {l \in LangDicts : Len(l) <= 1}}

\* both runs are given the same ProfileStats
RunInit ==
    /\ today \in TodayChoices
    /\ data \in RunData
    /\ data_b = data
    /\ hashseed \in HashSeeds
    /\ hashseed_b \in HashSeeds
    /\ rpc = "runs"
    /\ dna = NoOutput
    /\ dna_b = NoOutput
    /\ skyline = NoOutput
    /\ skyline_b = NoOutput
    /\ tree = NoOutput
    /\ weather = NoOutput

RunSkylineA ==
    /\ rpc = "runs"
    /\ skyline = NoOutput
    /\ skyline' = generate_repo_skyline(data, hashseed)
    /\ UNCHANGED <<data, today, rpc, dna, tree, weather, twinVars, hashseed_b,
                   skyline_b>>

RunSkylineB ==
    /\ rpc = "runs"
    /\ skyline_b = NoOutput
    /\ skyline_b' = generate_repo_skyline(data_b, hashseed_b)
    /\ UNCHANGED <<renderVars, twinVars, hashseed_b>>

RunNext ==
    \/ RunSkylineA
    \/ RunSkylineB

\* ---------------------------------------------------------------------
\* The parameters derived from a fingerprint (lines 303-305)
\* ---------------------------------------------------------------------
VARIABLES
    data_hash,  \* the first 8 hex digits of a fingerprint
    params      \* phase_offset and freq_mod derived from it

paramVars == <<data_hash, params>>

NoParams == [derived |-> FALSE]

HexDigitChoices == {0, 9, 15}

ParamIdle ==
    /\ data_hash = << >>
    /\ params = NoParams

ParamInit ==
    /\ data_hash \in [1..8 -> HexDigitChoices]
    /\ params = NoParams

DeriveParams ==
    /\ ~params.derived
    /\ Len(data_hash) = 8
    /\ params' = [derived      |-> TRUE,
                  phase_offset |-> PhaseOffset(data_hash),
                  freq_mod     |-> FreqMod(data_hash)]
    /\ UNCHANGED data_hash

\* ---------------------------------------------------------------------
\* Specifications
\* ---------------------------------------------------------------------
vars == <<fetchVars, envVars, renderVars, twinVars, runVars, paramVars>>

FetchIdle ==
    /\ pc = "idle"
    /\ queries = << >>
    /\ user = << >>
    /\ repos = << >>
    /\ ri = 1
    /\ lang_totals = << >>
    /\ repo_data = << >>
    /\ events = << >>
    /\ ei = 1
    /\ daily_activity = << >>
    /\ hourly_activity = << >>
    /\ event_types = << >>
    /\ result = NoResult

\* a credential, and the environment of a run that has one
Token == "ghp_token"

EnvLive ==
    /\ GITHUB_TOKEN = Token
    /\ hashseed = 0

\* the environment of the specifications that read neither variable
EnvIdle ==
    /\ GITHUB_TOKEN = ""
    /\ hashseed = 0

\* the aggregator against every upstream behaviour; main calls it only with
\* a credential (line 1018)
Init == FetchInit /\ EnvLive /\ RenderIdle /\ TwinIdle /\ RunIdle /\ ParamIdle

Next == FetchNext /\ UNCHANGED <<envVars, renderVars, twinVars, runVars, paramVars>>

Spec == Init /\ [][Next]_vars

\* the render pass of main over every ProfileStats of the bounded sets
InitRender ==
    /\ FetchIdle /\ RenderInit /\ TwinIdle /\ RunIdle /\ ParamIdle
    /\ GITHUB_TOKEN = ""
    /\ hashseed \in HashSeeds

NextRender == RenderNext /\ UNCHANGED <<fetchVars, envVars, twinVars, runVars, paramVars>>

SpecRender == InitRender /\ [][NextRender]_vars

\* two invocations of the Code DNA renderer on equal languageBytes mappings
InitTwin == FetchIdle /\ EnvIdle /\ TwinInit /\ RunIdle /\ ParamIdle

NextTwin == TwinNext /\ UNCHANGED <<fetchVars, envVars, runVars, paramVars>>

SpecTwin == InitTwin /\ [][NextTwin]_vars

\* the Code Weather renderer over the activity histories
InitWeather ==
    /\ FetchIdle /\ EnvIdle /\ TwinIdle /\ RunIdle /\ ParamIdle
    /\ today \in TodayChoices
    /\ data \in WeatherData(today)
    /\ rpc = "weather"
    /\ dna = NoOutput
    /\ skyline = NoOutput
    /\ tree = NoOutput
    /\ weather = NoOutput

NextWeather == RenderWeather /\ UNCHANGED <<fetchVars, envVars, twinVars, runVars, paramVars>>

SpecWeather == InitWeather /\ [][NextWeather]_vars

\* the Repo Skyline renderer over the repository lists
InitSkyline ==
    /\ FetchIdle /\ TwinIdle /\ RunIdle /\ ParamIdle
    /\ GITHUB_TOKEN = ""
    /\ hashseed \in HashSeeds
    /\ today \in TodayChoices
    /\ data \in SkylineData
    /\ rpc = "skyline"
    /\ dna = NoOutput
    /\ skyline = NoOutput
    /\ tree = NoOutput
    /\ weather = NoOutput

NextSkyline == RenderSkyline /\ UNCHANGED <<fetchVars, envVars, twinVars, runVars, paramVars>>

SpecSkyline == InitSkyline /\ [][NextSkyline]_vars

\* the Code DNA renderer over dicts of up to MaxDnaLangs languages
InitDna ==
    /\ FetchIdle /\ EnvIdle /\ TwinIdle /\ RunIdle /\ ParamIdle
    /\ today \in TodayChoices
    /\ data \in DnaData
    /\ rpc = "dna"
    /\ dna = NoOutput
    /\ skyline = NoOutput
    /\ tree = NoOutput
    /\ weather = NoOutput

NextDna == RenderDna /\ UNCHANGED <<fetchVars, envVars, twinVars, runVars, paramVars>>

SpecDna == InitDna /\ [][NextDna]_vars

\* the Skill Tree renderer over dicts with up to MaxBackend languages of
\* one category
InitTree ==
    /\ FetchIdle /\ EnvIdle /\ TwinIdle /\ RunIdle /\ ParamIdle
    /\ today \in TodayChoices
    /\ data \in TreeData
    /\ rpc = "tree"
    /\ dna = NoOutput
    /\ skyline = NoOutput
    /\ tree = NoOutput
    /\ weather = NoOutput

NextTree == RenderTree /\ UNCHANGED <<fetchVars, envVars, twinVars, runVars, paramVars>>

SpecTree == InitTree /\ [][NextTree]_vars

\* two runs of the program on the same ProfileStats, each with its own seed
InitRuns == FetchIdle /\ GITHUB_TOKEN = "" /\ RunInit /\ ParamIdle

NextRuns == RunNext /\ UNCHANGED <<fetchVars, envVars, paramVars>>

SpecRuns == InitRuns /\ [][NextRuns]_vars

\* main from its start to the ProfileStats it hands to the renderers, with
\* and without a credential
InitMain ==
    /\ FetchIdle /\ TwinIdle /\ RunIdle /\ ParamIdle
    /\ GITHUB_TOKEN \in {"", Token}
    /\ hashseed = 0
    /\ today \in TodayChoices
    /\ data = MakeStats(<< >>, << >>, << >>)
    /\ rpc = "main"
    /\ dna = NoOutput
    /\ skyline = NoOutput
    /\ tree = NoOutput
    /\ weather = NoOutput

NextMain == MainNext /\ UNCHANGED <<envVars, twinVars, runVars, paramVars>>

SpecMain == InitMain /\ [][NextMain]_vars

\* the parameter derivation over fingerprints
InitParams == FetchIdle /\ EnvIdle /\ RenderIdle /\ TwinIdle /\ RunIdle /\ ParamInit

NextParams == DeriveParams /\ UNCHANGED <<fetchVars, envVars, renderVars, twinVars, runVars>>

SpecParams == InitParams /\ [][NextParams]_vars

\* ---------------------------------------------------------------------
\* Properties of the aggregator
\* ---------------------------------------------------------------------

\* C1: fork exclusion.  The repositories kept, their count and the sum of
\* their stars are exactly those of the non-fork repositories of the
\* upstream list (in list order); no language query is ever issued for a
\* fork, and the returned totalRepositories / totalStars are the count and
\* the star sum of the non-fork repositories, whatever the forks carry.
C1_ForkExclusion ==
    LET RECURSIVE Stars(_)
        Stars(s) == IF s = << >> THEN 0
                    ELSE s[1].stargazers_count + Stars(Tail(s))
        NonFork(s) == SelectSeq(s, LAMBDA r : ~r.fork)
        seen == NonFork(SubSeq(repos, 1, ri - 1))
    IN /\ Len(repo_data) = Len(seen)
       /\ \A i \in DOMAIN repo_data :
            /\ repo_data[i].name = seen[i].name
            /\ repo_data[i].stars = seen[i].stargazers_count
       /\ \A i \in DOMAIN queries :
            queries[i].endpoint = "languages" =>
               \E j \in DOMAIN repos :
                  repos[j].name = queries[i].arg /\ ~repos[j].fork
       /\ result.returned =>
            /\ result.total_repos = Len(NonFork(repos))
            /\ result.total_stars = Stars(NonFork(repos))
            /\ Len(result.repos) = Len(NonFork(repos))

\* a run that returned after listing a starred fork next to a non-fork
C1_Witness ==
    /\ pc = "done"
    /\ \E i, j \in DOMAIN repos :
          /\ repos[i].fork /\ repos[i].stargazers_count > 0 /\ repos[i].size > 0
          /\ ~repos[j].fork

\* C2: conservation.  For every language the global languageBytes value is
\* the sum of that language's bytes over the per-repository maps, the keys
\* are the union of their keys, and the grand totals agree.
C2_MergeBySummation ==
    LET RECURSIVE PerLang(_, _)
        PerLang(rd, l) == IF rd = << >> THEN 0
                          ELSE DictGet(rd[1].languages, l, 0) + PerLang(Tail(rd), l)
        RECURSIVE Total(_)
        Total(rd) == IF rd = << >> THEN 0
                     ELSE SumValues(rd[1].languages) + Total(Tail(rd))
    IN /\ \A l \in Langs : DictGet(lang_totals, l, 0) = PerLang(repo_data, l)
       /\ DictKeys(lang_totals) =
             UNION {DictKeys(repo_data[i].languages) : i \in DOMAIN repo_data}
       /\ SumValues(lang_totals) = Total(repo_data)
       /\ Cardinality(DictKeys(lang_totals)) = Len(lang_totals)

\* the example of the specification: {Python:100} then {Python:50, Go:20}
C2_Witness ==
    /\ Len(repo_data) = 2
    /\ repo_data[1].languages = << <<"Python", 100>> >>
    /\ repo_data[2].languages = << <<"Python", 50>>, <<"Go", 20>> >>
    /\ lang_totals = << <<"Python", 150>>, <<"Go", 20>> >>
    /\ result.returned

\* C3: malformed timestamps.  Over the events handled so far, each day
\* bucket counts the events with a well-formed timestamp of that day and
\* each hour bucket those of that hour; hour keys lie in 0..23; events with
\* an empty or unparseable timestamp count nowhere, and no event ends the
\* run (the run is only ever ended by a query that raised).
C3_MalformedTimestampsSkipped ==
    LET WellFormed(t) == /\ Len(t) = 4
                         /\ t[1] \in 1..12
                         /\ t[2] \in 1..(IF t[1] = 2 THEN 29
                                         ELSE IF t[1] \in {4, 6, 9, 11} THEN 30 ELSE 31)
                         /\ t[3] \in 0..23
        seen == {i \in 1..(ei - 1) : WellFormed(events[i].created_at)}
    IN /\ \A k \in DictKeys(daily_activity) :
            DictGet(daily_activity, k, 0) =
               Cardinality({i \in seen : 20240000 + events[i].created_at[1] * 100
                                          + events[i].created_at[2] = k})
       /\ \A h \in DictKeys(hourly_activity) :
            /\ h \in 0..23
            /\ DictGet(hourly_activity, h, 0) =
                  Cardinality({i \in seen : events[i].created_at[3] = h})
       /\ SumValues(daily_activity) = Cardinality(seen)
       /\ SumValues(hourly_activity) = Cardinality(seen)
       /\ pc = "raised" => queries[Len(queries)].outcome = "raise"
       /\ pc = "event_loop" => ei <= Len(events)
       /\ result.returned => ei = Len(events) + 1

\* a returned run whose events held a malformed and a well-formed timestamp
C3_Witness ==
    /\ pc = "done"
    /\ \E i, j \in DOMAIN events :
          /\ events[i].created_at = <<1, 15, 24, 0>>
          /\ events[j].created_at = <<1, 15, 10, 0>>
    /\ SumValues(daily_activity) = 1

\* C4: a non-success status.  A query answered by a non-success status
\* never ends the run; its result is the empty mapping/list; the run goes
\* on to issue every remaining query (profile, repository list, one
\* language query per non-fork repository, events) and returns a
\* ProfileStats; a non-fork repository whose language query failed is kept
\* with its stars and an empty language map.
C4_StatusFailureDegrades ==
    LET Failed(e) == {i \in DOMAIN queries :
                        queries[i].endpoint = e /\ queries[i].outcome = "status"}
        NonFork(s) == SelectSeq(s, LAMBDA r : ~r.fork)
    IN /\ pc = "raised" => queries[Len(queries)].outcome = "raise"
       /\ Failed("profile") # {} => user = << >>
       /\ Failed("repos") # {} => repos = << >> /\ repo_data = << >>
       /\ Failed("events") # {} => events = << >>
       /\ \A i \in Failed("languages") :
            \E k \in DOMAIN repo_data, j \in DOMAIN repos :
               /\ repo_data[k].name = queries[i].arg
               /\ repos[j].name = queries[i].arg
               /\ repo_data[k].languages = << >>
               /\ repo_data[k].stars = repos[j].stargazers_count
       /\ pc \notin {"done", "raised"} => ENABLED FetchNext
       /\ pc = "done" =>
            /\ result.returned
            /\ Len(queries) = 3 + Len(NonFork(repos))
            /\ queries[1].endpoint = "profile"
            /\ queries[2].endpoint = "repos"
            /\ queries[Len(queries)].endpoint = "events"
            /\ \A k \in DOMAIN NonFork(repos) :
                 /\ queries[2 + k].endpoint = "languages"
                 /\ queries[2 + k].arg = NonFork(repos)[k].name
            /\ result.total_repos = Len(NonFork(repos))

\* a returned run in which the language query of a starred non-fork failed
C4_Witness ==
    /\ pc = "done"
    /\ \E i \in DOMAIN queries :
          /\ queries[i].endpoint = "languages"
          /\ queries[i].outcome = "status"
          /\ queries[i].arg = "alpha"
    /\ result.total_stars >= 3
    /\ queries[Len(queries)].endpoint = "events"

\* C5: a query whose network client raises (timeout, transport error) is
\* recovered inside the aggregator: the run is never ended by it.
C5_TransportErrorRecovered ==
    \A i \in DOMAIN queries : queries[i].outcome = "raise" => pc # "raised"

\* ---------------------------------------------------------------------
\* Properties of the renderers
\* ---------------------------------------------------------------------

\* C6: zero-division safety on degenerate input.  For a ProfileStats with
\* no repository, or no language, or a 30-day history without any event,
\* no renderer raises, all four return a non-empty document, and with no
\* repository the skyline draws exactly one placeholder of non-zero size.
C6_DegenerateInputsRender ==
    LET zeroRepos    == data.repos = << >>
        zeroLangs    == data.languages = << >>
        zeroActivity == \A i \in 0..29 :
                           DictGet(data.daily_activity, StrfTime(today - i), 0) = 0
    IN (rpc \in {"dna", "skyline", "tree", "weather", "rendered", "crashed"}
        /\ (zeroRepos \/ zeroLangs \/ zeroActivity)) =>
          /\ rpc # "crashed"
          /\ rpc = "rendered" =>
               /\ dna.ok /\ dna.elements > 0
               /\ skyline.ok /\ skyline.elements > 0
               /\ tree.ok /\ tree.elements > 0
               /\ weather.ok /\ weather.elements > 0
          /\ (skyline.ok /\ zeroRepos) =>
               /\ Len(skyline.repos) = 1
               /\ skyline.repos[1].size > 0

\* C7: division guard.  For every ProfileStats with non-negative counts no
\* renderer raises, and the denominators that could be zero (total bytes,
\* maximum size, maximum byte count, 30-day maximum) are at least 1.
C7_DenominatorsFloored ==
    /\ rpc # "crashed"
    /\ tree.ok => tree.max_bytes >= 1
    /\ skyline.ok => skyline.max_size >= 1
    /\ weather.ok => weather.max_val >= 1

\* C8: determinism of the Code DNA geometry.  Two invocations on equal
\* languageBytes mappings, whatever the insertion order of the languages
\* and whatever the other fields, have the same fingerprint, phase offset,
\* frequency multiplier and strand, rung and node coordinates.
C8_DnaDeterministic ==
    (dna.ok /\ dna_b.ok /\ SameMapping(data.languages, data_b.languages)) =>
       /\ dna.data_hash = dna_b.data_hash
       /\ dna.short_hash = dna_b.short_hash
       /\ dna.phase_offset = dna_b.phase_offset
       /\ dna.freq_mod = dna_b.freq_mod
       /\ dna.points = dna_b.points
       /\ DOMAIN dna.rungs = DOMAIN dna_b.rungs
       /\ \A i \in DOMAIN dna.rungs : dna.rungs[i].angle = dna_b.rungs[i].angle
       /\ DOMAIN dna.nodes = DOMAIN dna_b.nodes
       /\ \A i \in DOMAIN dna.nodes : dna.nodes[i].angle = dna_b.nodes[i].angle

\* both invocations done, on the same mapping inserted in another order
\* and with other repositories and activity
C8_Witness ==
    /\ dna.ok /\ dna_b.ok
    /\ Len(data.languages) = 2
    /\ data_b.languages = <<data.languages[2], data.languages[1]>>
    /\ data_b.repos # data.repos
    /\ data_b.daily_activity # data.daily_activity

\* C9 as stated: the phase offset lies in [0, 2*pi), the frequency
\* multiplier in [0.8, 1.4], and the two come from disjoint digit slices.
C9_ParamRangesHalfOpen ==
    params.derived =>
       /\ 0 <= params.phase_offset.num
       /\ params.phase_offset.num < 2 * params.phase_offset.den
       /\ 8 * params.freq_mod.den <= 10 * params.freq_mod.num
       /\ 10 * params.freq_mod.num <= 14 * params.freq_mod.den
       /\ {PhaseSlice(<<1, 2, 3, 4, 5, 6, 7, 8>>)[i] : i \in 1..4}
             \cap {FreqSlice(<<1, 2, 3, 4, 5, 6, 7, 8>>)[i] : i \in 1..4} = {}

\* C9 amended: the phase offset lies in the closed interval [0, 2*pi] (it
\* is 2*pi exactly when the first four digits are ffff), the frequency
\* multiplier in [0.8, 1.4], from disjoint four-digit slices.
C9_ParamRangesClosed ==
    LET idx == <<1, 2, 3, 4, 5, 6, 7, 8>>
        ph  == PhaseSlice(idx)
        fr  == FreqSlice(idx)
    IN params.derived =>
       /\ 0 <= params.phase_offset.num
       /\ params.phase_offset.num <= 2 * params.phase_offset.den
       /\ (params.phase_offset.num = 2 * params.phase_offset.den)
             = (SubSeq(data_hash, 1, 4) = <<15, 15, 15, 15>>)
       /\ 8 * params.freq_mod.den <= 10 * params.freq_mod.num
       /\ 10 * params.freq_mod.num <= 14 * params.freq_mod.den
       /\ Len(ph) = 4 /\ Len(fr) = 4
       /\ {ph[i] : i \in DOMAIN ph} \cap {fr[i] : i \in DOMAIN fr} = {}

\* the fingerprint ffff0000...: phase at its upper end, frequency at its lower
C9_Witness ==
    /\ params.derived
    /\ data_hash = <<15, 15, 15, 15, 0, 0, 0, 0>>
    /\ params.phase_offset.num = 2 * params.phase_offset.den
    /\ 10 * params.freq_mod.num = 8 * params.freq_mod.den

\* C10: Skill Tree tiers.  Every skill row carries the maximum byte count
\* over all languages as its denominator, and exactly the tier of its
\* proportion p = bytes / max: Master iff p > 0.7, Expert iff
\* 0.4 < p <= 0.7, Adept iff 0.2 < p <= 0.4, Skilled iff 0.08 < p <= 0.2,
\* Novice iff p <= 0.08.
C10_TierThresholds ==
    tree.ok =>
       \A c \in DOMAIN tree.columns : \A k \in DOMAIN tree.columns[c] :
          LET row == tree.columns[c][k]
              b   == row.bytes
              m   == MaxOf({data.languages[i][2] : i \in DOMAIN data.languages})
          IN /\ row.den = m
             /\ row.level \in {"Master", "Expert", "Adept", "Skilled", "Novice"}
             /\ (row.level = "Master")  = (10 * b > 7 * m)
             /\ (row.level = "Expert")  = (10 * b > 4 * m /\ 10 * b <= 7 * m)
             /\ (row.level = "Adept")   = (10 * b > 2 * m /\ 10 * b <= 4 * m)
             /\ (row.level = "Skilled") = (100 * b > 8 * m /\ 10 * b <= 2 * m)
             /\ (row.level = "Novice")  = (100 * b <= 8 * m)

\* a language at exactly 70% of the maximum, in another category than the
\* language holding the maximum, shown as Expert
C10_Witness ==
    /\ tree.ok
    /\ Len(tree.columns) = 2
    /\ \E c \in DOMAIN tree.columns :
          /\ tree.columns[c][1].bytes = 35
          /\ tree.columns[c][1].den = 50
          /\ tree.columns[c][1].level = "Expert"

\* ---------------------------------------------------------------------
\* Properties of the Code Weather renderer
\* ---------------------------------------------------------------------

\* the count the history holds for a day (a missing day counts 0)
CountOn(day) == DictGet(data.daily_activity, StrfTime(day), 0)

\* C11: today's count c falls in exactly one of the five bands c = 0,
\* 1..2, 3..5, 6..10, c > 10, the temperature is 0, 12c, 10c, 8c and
\* min(99, 6c) respectively and never exceeds 99; each of the 7 forecast
\* days is classified by the same thresholds on its own count, and the
\* forecast column of today shows the band of the main card.
C11_BandsAndTemperature ==
    weather.ok =>
        LET c == CountOn(today)
            BandOf(n) == IF n = 0 THEN "Cloudy"
                         ELSE IF n \in 1..2 THEN "Partly Cloudy"
                         ELSE IF n \in 3..5 THEN "Sunny"
                         ELSE IF n \in 6..10 THEN "Hot"
                         ELSE "Thunderstorm"
        IN /\ weather.today_count = c
           /\ weather.weather = BandOf(c)
           /\ c = 0 => weather.temp = 0
           /\ c \in 1..2 => weather.temp = 12 * c
           /\ c \in 3..5 => weather.temp = 10 * c
           /\ c \in 6..10 => weather.temp = 8 * c
           /\ c > 10 => /\ 6 * c <= 99 => weather.temp = 6 * c
                        /\ 6 * c > 99 => weather.temp = 99
           /\ weather.temp <= 99
           /\ \A col \in 1..7 :
                 weather.forecast[col].icon = BandOf(CountOn(weather.forecast[col].day))
           /\ \E col \in 1..7 : /\ weather.forecast[col].day = today
                                 /\ weather.forecast[col].icon = weather.weather

\* a thunderstorm day capped at 99 degrees, after a sunny yesterday
C11_Witness ==
    /\ weather.ok
    /\ CountOn(today) = 17
    /\ weather.temp = 99
    /\ weather.weather = "Thunderstorm"
    /\ CountOn(today - 1) = 4
    /\ weather.forecast[6].icon = "Sunny"

\* C12: with a7 and a30 the averages of the daily counts over the trailing
\* 7 and 30 days (today included, missing days 0), the trend is "up" iff
\* a7 > 1.2 * a30, "down" iff a7 < 0.8 * a30 and "steady" otherwise; an
\* all-zero history is steady, and (a7, a30) = (10, 8), (6, 8), (9, 10)
\* give up, down, steady.
C12_TrendByAverages ==
    weather.ok =>
        LET s7  == SumSeq([k \in 1..7 |-> CountOn(today - (k - 1))])
            s30 == SumSeq([k \in 1..30 |-> CountOn(today - (k - 1))])
            \* a7 = s7 / 7 and a30 = s30 / 30, compared after multiplying
            \* both sides by 7 * 30 * 10
            up   == s7 * 300 > 12 * s30 * 7
            down == s7 * 300 < 8 * s30 * 7
        IN /\ (weather.trend = "up") <=> up
           /\ (weather.trend = "down") <=> down
           /\ (weather.trend = "steady") <=> (~up /\ ~down)
           /\ s30 = 0 => weather.trend = "steady"
           /\ (s7 = 70 /\ s30 = 240) => weather.trend = "up"
           /\ (s7 = 42 /\ s30 = 240) => weather.trend = "down"
           /\ (s7 = 63 /\ s30 = 300) => weather.trend = "steady"

\* ---------------------------------------------------------------------
\* Properties of the Repo Skyline renderer
\* ---------------------------------------------------------------------

\* C13: the skyline draws at most 18 bars, for the repositories with the
\* largest sizes (no repository left out is larger than one drawn); each
\* bar's height is 25 + (size / maxSize) * 145 with maxSize the largest
\* drawn size floored to 1, so every height lies in [25, 170], and a bar
\* has an antenna exactly when its height exceeds 100.
C13_SkylineSelectionAndHeights ==
    skyline.ok =>
        LET bars    == skyline.bars
            names   == {bars[i].name : i \in DOMAIN bars}
            largest == MaxOf({bars[i].size : i \in DOMAIN bars})
            maxSize == IF largest < 1 THEN 1 ELSE largest
        IN /\ Len(bars) <= 18
           /\ data.repos # << >> =>
                /\ Len(bars) = IF Len(data.repos) < 18 THEN Len(data.repos) ELSE 18
                /\ Cardinality(names) = Len(bars)
                /\ \A i \in DOMAIN bars : \E j \in DOMAIN data.repos :
                      /\ data.repos[j].name = bars[i].name
                      /\ data.repos[j].size = bars[i].size
                /\ \A j \in DOMAIN data.repos :
                      data.repos[j].name \notin names =>
                         \A i \in DOMAIN bars : data.repos[j].size <= bars[i].size
           /\ skyline.max_size = maxSize
           /\ \A i \in DOMAIN bars :
                 LET bh == bars[i].bh
                 IN /\ bh.den > 0
                    /\ bh.num * maxSize = (25 * maxSize + 145 * bars[i].size) * bh.den
                    /\ 25 * bh.den <= bh.num
                    /\ bh.num <= 170 * bh.den
                    /\ bars[i].antenna <=> (bh.num > 100 * bh.den)

\* nineteen repositories, the smallest left out, a bar of height exactly
\* 170 with an antenna and a bar without one
C13_Witness ==
    /\ skyline.ok
    /\ Len(data.repos) = 19
    /\ Len(skyline.bars) = 18
    /\ \E j \in DOMAIN data.repos :
          /\ \A i \in DOMAIN skyline.bars : skyline.bars[i].name # data.repos[j].name
          /\ \A i \in DOMAIN skyline.bars : skyline.bars[i].size > data.repos[j].size
    /\ \E i \in DOMAIN skyline.bars :
          /\ skyline.bars[i].antenna
          /\ skyline.bars[i].bh.num = 170 * skyline.bars[i].bh.den
    /\ \E i \in DOMAIN skyline.bars : ~skyline.bars[i].antenna

\* C14: the lit/unlit window pattern of the skyline is a function of the
\* input alone: two separate runs of the program on identical ProfileStats
\* give every window the same lit value.
C14_WindowsStableAcrossRuns ==
    (skyline.ok /\ skyline_b.ok /\ data = data_b) =>
        \A i \in DOMAIN skyline.bars :
           skyline.bars[i].windows = skyline_b.bars[i].windows

\* C18: for every number n of drawn bars, 1 <= n <= 18, the bar width
\* w = min(36, (720 - 6 * (n - 1)) / n) is positive and at most 36, the row
\* n * w + 6 * (n - 1) fits in the 720-unit building area, and the centred
\* row has its left edge >= 40 and its right edge <= 760.
C18_BarRowFits ==
    skyline.ok =>
        LET n     == Len(skyline.bars)
            w     == skyline.building_width
            fit   == 720 - 6 * (n - 1)
            row   == skyline.total_buildings_width
            first == skyline.bars[1].x
            last  == skyline.bars[n].x
        IN /\ n \in 1..18
           /\ w.den > 0 /\ row.den > 0 /\ first.den > 0 /\ last.den > 0
           /\ w.num > 0
           /\ w.num <= 36 * w.den
           /\ IF 36 * n <= fit THEN w.num = 36 * w.den ELSE w.num * n = fit * w.den
           /\ row.num * w.den = (n * w.num + 6 * (n - 1) * w.den) * row.den
           /\ row.num <= 720 * row.den
           /\ first.num >= 40 * first.den
           /\ last.num * w.den + w.num * last.den <= 760 * last.den * w.den
           \* centred: the margins left and right are equal
           /\ first.num * last.den * w.den
                + last.num * first.den * w.den + w.num * first.den * last.den
              = 800 * first.den * last.den * w.den

\* eighteen bars of width 618 / 18 reaching from 40 to 760
C18_Witness ==
    /\ skyline.ok
    /\ Len(skyline.bars) = 18
    /\ skyline.building_width.num * 18 = 618 * skyline.building_width.den
    /\ skyline.bars[1].x.num = 40 * skyline.bars[1].x.den
    /\ LET last == skyline.bars[18].x
           w    == skyline.building_width
       IN last.num * w.den + w.num * last.den = 760 * last.den * w.den

\* ---------------------------------------------------------------------
\* Properties of main's choice of data and of the order of the queries
\* ---------------------------------------------------------------------

\* C15: the credential is optional: when it is absent the program still
\* builds ProfileStats from the live upstream queries, issued without an
\* Authorization header, and from no other source.
C15_AnonymousLiveData ==
    (GITHUB_TOKEN = "" /\ rpc = "dna") =>
        /\ pc = "done"
        /\ queries # << >>
        /\ \A i \in DOMAIN queries : "Authorization" \notin queries[i].headers
        /\ data = StatsOf(result)

\* C15, amended: without a credential the program issues no upstream query
\* and builds ProfileStats from the built-in sample data; with a credential
\* it builds ProfileStats from the upstream queries, each of which carries
\* the Authorization header.
C15_CredentialSelectsSource ==
    /\ GITHUB_TOKEN = "" =>
          /\ queries = << >>
          /\ pc = "idle"
          /\ rpc = "dna" => data = get_mock_data(today)
    /\ GITHUB_TOKEN # "" =>
          /\ \A i \in DOMAIN queries : "Authorization" \in queries[i].headers
          /\ rpc = "dna" => /\ pc = "done"
                            /\ queries # << >>
                            /\ data = StatsOf(result)

\* a run without a credential that has taken the sample data
C15_Witness ==
    /\ GITHUB_TOKEN = ""
    /\ rpc = "dna"
    /\ queries = << >>
    /\ data.total_repos = 14
    /\ data.total_stars = 95

\* C16: in one live run the queries are issued one after another in the
\* order profile, repository list, one language query per non-fork
\* repository in list order, then events; each is issued exactly once
\* whether it succeeds or fails, so a run makes exactly 3 + (number of
\* non-fork repositories) queries, only the 3 fixed ones when the
\* repository-list query fails.
C16_QueriesInOrderOnce ==
    LET nonFork  == SelectSeq(repos, LAMBDA r : ~IsSkipped(r))
        expected == <<[endpoint |-> "profile", arg |-> ""],
                      [endpoint |-> "repos", arg |-> ""]>>
                    \o [k \in DOMAIN nonFork |->
                          [endpoint |-> "languages", arg |-> nonFork[k].name]]
                    \o <<[endpoint |-> "events", arg |-> ""]>>
        issued   == [i \in DOMAIN queries |->
                       [endpoint |-> queries[i].endpoint, arg |-> queries[i].arg]]
    IN /\ Len(queries) >= 2 =>
            /\ Len(issued) <= Len(expected)
            /\ issued = SubSeq(expected, 1, Len(issued))
       /\ Len(queries) = 1 => issued[1] = [endpoint |-> "profile", arg |-> ""]
       \* the run is over
       /\ pc \in {"done", "raised"} =>
            /\ issued = expected
            /\ Len(queries) = 3 + Len(nonFork)
            /\ \A i \in DOMAIN queries :
                  (queries[i].endpoint = "repos" /\ queries[i].outcome # "ok")
                     => Len(queries) = 3

\* ---------------------------------------------------------------------
\* Properties of the colours, the columns and the ranking
\* ---------------------------------------------------------------------

\* C17: in Code DNA every rung and every node pair is coloured by the
\* language of its sample position, cycling round-robin over the top-8
\* list: where a rung and a node pair are drawn at the same sample index
\* they carry the same language, and the consecutive drawn rungs, like the
\* consecutive drawn nodes, use every language of the list in turn.
C17_RoundRobinColours ==
    (dna.ok /\ dna.sorted_langs # << >>) =>
        LET ranked == dna.sorted_langs
            n      == Len(ranked)
            \* the language of the k-th drawn element, k from 0
            Turn(k) == ranked[(k % n) + 1][1]
        IN /\ \A i \in DOMAIN dna.rungs \cap DOMAIN dna.nodes :
                 dna.rungs[i].lang = dna.nodes[i].lang
           /\ \A i \in DOMAIN dna.rungs : dna.rungs[i].lang = Turn(i \div 3)
           /\ \A i \in DOMAIN dna.nodes : dna.nodes[i].lang = Turn(i \div 3)

\* the category of a language in the static table, or "Other"
CategoryOf(lang) ==
    IF \E c \in DOMAIN Categories : lang \in CategoryLangs(Categories[c])
    THEN Categories[CHOOSE c \in DOMAIN Categories : lang \in CategoryLangs(Categories[c])]
    ELSE "Other"

\* the rows of the tree as a set of <<column, row>> positions
TreeRows ==
    UNION {{<<c, k>> : k \in DOMAIN tree.columns[c]} : c \in DOMAIN tree.columns}

\* the columns are the categories with a member, sharing the width evenly,
\* every row sits in the column of its category, rows descend by bytes
TreeColumnsSound ==
    LET langs == {data.languages[i][1] : i \in DOMAIN data.languages}
        cols  == tree.columns
    IN /\ {tree.cat_names[c] : c \in DOMAIN tree.cat_names}
            = {CategoryOf(l) : l \in langs}
       /\ \A c1, c2 \in DOMAIN tree.cat_names :
             c1 # c2 => tree.cat_names[c1] # tree.cat_names[c2]
       /\ Len(cols) = Len(tree.cat_names)
       /\ \A p \in TreeRows :
             LET row == cols[p[1]][p[2]]
             IN /\ row.cat = tree.cat_names[p[1]]
                /\ row.cat = CategoryOf(row.lang)
                /\ <<row.lang, row.bytes>> \in {data.languages[i] : i \in DOMAIN data.languages}
       /\ \A c \in DOMAIN cols : \A k \in 1..(Len(cols[c]) - 1) :
             cols[c][k].bytes >= cols[c][k + 1].bytes
       /\ langs # {} =>
             tree.col_width.num * Len(cols) = (800 - 64) * tree.col_width.den

\* C19: in the Skill Tree every language of languageBytes is listed as a
\* skill row in exactly one category column (its category of the static
\* table, or "Other"), rows within a column descend by byte count, a
\* category is a column iff it has a member, and the columns share the
\* width evenly.
C19_EveryLanguageListed ==
    tree.ok =>
        /\ TreeColumnsSound
        /\ \A i \in DOMAIN data.languages :
              Cardinality({p \in TreeRows :
                  tree.columns[p[1]][p[2]].lang = data.languages[i][1]}) = 1

\* C19, amended: every language belongs to exactly one category column;
\* a column lists the languages of its category in descending byte-count
\* order, but at most six of them, those with the most bytes.
C19_SixRowsPerColumn ==
    tree.ok =>
        /\ TreeColumnsSound
        /\ \A i \in DOMAIN data.languages :
              Cardinality({p \in TreeRows :
                  tree.columns[p[1]][p[2]].lang = data.languages[i][1]}) <= 1
        /\ \A c \in DOMAIN tree.columns :
              LET members == {i \in DOMAIN data.languages :
                                CategoryOf(data.languages[i][1]) = tree.cat_names[c]}
                  listed  == {tree.columns[c][k].lang : k \in DOMAIN tree.columns[c]}
              IN /\ Len(tree.columns[c])
                      = IF Cardinality(members) < 6 THEN Cardinality(members) ELSE 6
                 /\ Cardinality(listed) = Len(tree.columns[c])
                 /\ \A i \in members :
                       data.languages[i][1] \notin listed =>
                          \A k \in DOMAIN tree.columns[c] :
                             data.languages[i][2] <= tree.columns[c][k].bytes

\* eight Backend languages, six of them listed, beside two other columns
C19_Witness ==
    /\ tree.ok
    /\ Len(tree.columns) >= 3
    /\ \E c \in DOMAIN tree.columns :
          /\ tree.cat_names[c] = "Backend"
          /\ Len(tree.columns[c]) = 6
          /\ Cardinality({i \in DOMAIN data.languages :
                 CategoryOf(data.languages[i][1]) = "Backend"}) = 8

\* C20: the ranking of the languages depends on the languageBytes mapping
\* only, not on its insertion order: two ProfileStats with the same
\* language-to-bytes pairs inserted in different orders, pairs with equal
\* byte counts included, yield the same ranked list.
C20_RankingIgnoresInsertionOrder ==
    (dna.ok /\ dna_b.ok /\ SameMapping(data.languages, data_b.languages)) =>
        /\ dna.sorted_langs = dna_b.sorted_langs
        /\ dna.legend = dna_b.legend

\* ---------------------------------------------------------------------
\* Properties of the forecast labels
\* ---------------------------------------------------------------------

\* C21: in the 7-day forecast the columns run from six days ago (left) to
\* today (right), each column shows the count of its own date, and the
\* day name printed on a column is that date's actual day of the week (a
\* Monday is labelled "Mon", a Sunday "Sun").
C21_ForecastLabels ==
    weather.ok =>
        \A col \in 1..7 :
           LET f == weather.forecast[col]
               \* days of 2024 since Monday 1 January
               since == f.day - 1
           IN /\ f.day = today - (7 - col)
              /\ f.count = CountOn(f.day)
              /\ since % 7 = 0 => f.day_name = "Mon"
              /\ since % 7 = 1 => f.day_name = "Tue"
              /\ since % 7 = 2 => f.day_name = "Wed"
              /\ since % 7 = 3 => f.day_name = "Thu"
              /\ since % 7 = 4 => f.day_name = "Fri"
              /\ since % 7 = 5 => f.day_name = "Sat"
              /\ since % 7 = 6 => f.day_name = "Sun"

====
